---- MODULE Spec2Model ----
(***************************************************************************)
(* Model of the opendic-benchmark harness: the timed executor              *)
(* (runner.execute_timed_query, main._execute_timed_query), the result     *)
(* recorder (experiment_logger/data_recorder.DataRecorder), the experiment *)
(* operations of exp_table.py / exp_function.py and the driver of main.py. *)
(*                                                                         *)
(* Python values are modelled by what the code reads of them: an Enum      *)
(* member is a record naming its class and member (Enum members of         *)
(* different classes are never equal), a value passed as "granularity" is  *)
(* tagged with its Python type, because DataRecorder.record reads its      *)
(* .value attribute.                                                       *)
(***************************************************************************)
EXTENDS Integers, Sequences, FiniteSets, TLC

VARIABLES clock, store, recorders, calls, last, te, pc, loc, conns, renamed

vars == <<clock, store, recorders, calls, last, te, pc, loc, conns, renamed>>

(***************************************************************************)
(* Bounds of the model.                                                    *)
(***************************************************************************)
\* Largest reading of the wall clock (datetime.datetime.now()).
MaxClock == 2
\* Number of calls a caller of the library makes in one run.
MaxCalls == 2
\* Number of DataRecorder objects constructed against the same store.
MaxRecorders == 2
\* Largest repetition number a direct caller of record passes.
MaxRep == 1

(***************************************************************************)
(* consts.py / data_recorder.py: the enums.                                *)
(***************************************************************************)
SysC(n) == [enum |-> "consts", name |-> n]

SysR(n) == [enum |-> "data_recorder", name |-> n]

StandardNames == {"SQLITE", "POSTGRES", "DUCKDB", "SNOWFLAKE"}

OpendicNames == {"OPENDIC_POLARIS_FILE", "OPENDIC_POLARIS_FILE_BATCH",
                 "OPENDIC_POLARIS_FILE_CACHED", "OPENDIC_POLARIS_FILE_CACHED_BATCH",
                 "OPENDIC_POLARIS_AZURE"}

\* consts.DatabaseSystem: the nine backends the experiment code names.
DatabaseSystem == {SysC(n) : n \in StandardNames \cup OpendicNames}

\* data_recorder.DatabaseSystem: the four members the recorder iterates over.
RecorderDatabaseSystem == {SysR(n) : n \in StandardNames}

\* Enum.value of a DatabaseSystem member (the same strings in both classes).
Value(s) ==
    CASE s.name = "SQLITE" -> "sqlite"
      [] s.name = "POSTGRES" -> "postgres"
      [] s.name = "DUCKDB" -> "duckDB"
      [] s.name = "SNOWFLAKE" -> "snowflake"
      [] s.name = "OPENDIC_POLARIS_FILE" -> "opendict_polaris_file"
      [] s.name = "OPENDIC_POLARIS_FILE_BATCH" -> "opendict_polaris_file_batch"
      [] s.name = "OPENDIC_POLARIS_FILE_CACHED" -> "opendict_polaris_file_cache"
      [] s.name = "OPENDIC_POLARIS_FILE_CACHED_BATCH" -> "opendict_polaris_file_cache_batch"
      [] s.name = "OPENDIC_POLARIS_AZURE" -> "opendict_polaris_cloud_azure"

\* consts.OPENDIC_EXPS
OPENDIC_EXPS == {SysC(n) : n \in OpendicNames}

\* DDLCommand values and DatabaseObject values (identical in both modules).
DDLCommand == {"CREATE", "DROP", "ALTER", "COMMENT", "SHOW"}

DatabaseObject == {"table", "index", "view", "function", "sequence", "database"}

\* A Granularity member: an object with a .value attribute.
Gran(v) == [py |-> "Granularity", value |-> v]

\* A plain Python int: it has no .value attribute.
PyInt(v) == [py |-> "int", value |-> v]

HasValueAttr(x) == x.py = "Granularity"

(***************************************************************************)
(* data_recorder.py: the results store and DataRecorder.                   *)
(* store maps the name of every existing results table to its rows, in     *)
(* insertion order.                                                        *)
(***************************************************************************)
TableName(s) == Value(s) \o "db_logs"

Key(row) == <<row.system_name, row.ddl_command, row.target_object,
              row.granularity, row.repetition_nr>>

CreateOrReplaceTable(st, t) == [u \in DOMAIN st \cup {t} |-> IF u = t THEN <<>> ELSE st[u]]

\* CREATE TABLE IF NOT EXISTS: an existing table keeps its rows.
CreateTableIfNotExists(st, t) ==
    IF t \in DOMAIN st THEN st ELSE [u \in DOMAIN st \cup {t} |-> IF u = t THEN <<>> ELSE st[u]]

RECURSIVE CreateAll(_, _)
CreateAll(st, ts) ==
    IF ts = {} THEN st
    ELSE LET t == CHOOSE x \in ts : TRUE
         IN CreateAll(CreateTableIfNotExists(st, t), ts \ {t})

\* DataRecorder._initialize_tables: one table per member of the recorder's own enum.
InitializeTables(st) == CreateAll(st, {TableName(s) : s \in RecorderDatabaseSystem})

\* The tuple record() binds to the nine parameters of the insert.
RowOf(a) ==
    [system_name |-> Value(a.system), ddl_command |-> a.ddl_command,
     query_text |-> a.query_text, target_object |-> a.target_object,
     granularity |-> a.granularity.value, repetition_nr |-> a.repetition_nr,
     query_runtime |-> a.query_runtime, start_time |-> a.start_time,
     end_time |-> a.end_time]

\* What record() raises, "none" when the insert is executed.
RecordRaises(st, a) ==
    IF ~HasValueAttr(a.granularity) THEN "AttributeError"
    ELSE IF TableName(a.system) \notin DOMAIN st THEN "CatalogException"
    ELSE IF \E k \in 1..Len(st[TableName(a.system)]) :
               Key(st[TableName(a.system)][k]) = Key(RowOf(a)) THEN "ConstraintException"
    ELSE "none"

RecordStoreEveryTable(st, a) ==
    IF RecordRaises(st, a) # "none" THEN st
    ELSE [t \in DOMAIN st |-> Append(st[t], RowOf(a))]

\* The store after record(): one row appended to the backend's table, or unchanged when it raises.
RecordStore(st, a) ==
    IF RecordRaises(st, a) # "none" THEN st
    ELSE [st EXCEPT ![TableName(a.system)] = Append(@, RowOf(a))]

NoCall == [op |-> "none"]

IdleTE == [state |-> "idle"]

NoLoc == [fn |-> "none"]

\* Open connections to the backend under test: the one main() holds, those the
\* experiment opened, and those opened inside an operation.
NoConns == [main |-> 0, tier |-> 0, aux |-> 0]

Init ==
    /\ clock \in 0..MaxClock
    /\ store = <<>>
    /\ recorders = 0
    /\ calls = 0
    /\ last = NoCall
    /\ te = IdleTE
    /\ pc = "idle"
    /\ loc = NoLoc
    /\ conns = NoConns
    /\ renamed = {}

\* DataRecorder(db_name): __init__ runs _initialize_tables.
Construct ==
    /\ pc = "idle"
    /\ recorders < MaxRecorders
    /\ recorders' = recorders + 1
    /\ store' = InitializeTables(store)
    /\ last' = [op |-> "construct", outcome |-> "returned"]
    /\ UNCHANGED <<clock, calls, te, pc, loc, conns, renamed>>

\* The records a direct caller of record() passes.
RecSystems == {SysC("SQLITE"), SysR("DUCKDB"), SysC("OPENDIC_POLARIS_FILE")}

RecCommands == {"CREATE", "ALTER"}

RecQueries == {"CREATE TABLE t_0 (id INTEGER PRIMARY KEY, value TEXT);",
               "x'); DROP TABLE sqlitedb_logs; --"}

RecGranularities == {Gran(1), Gran(10), PyInt(0)}

RecordInputs ==
    [system : RecSystems, ddl_command : RecCommands, query_text : RecQueries,
     target_object : {"table"}, granularity : RecGranularities,
     repetition_nr : 0..MaxRep, query_runtime : {1}, start_time : {0}, end_time : {1}]

\* recorder.record(*experiment), called directly as in data_recorder's example.
Record ==
    /\ pc = "idle"
    /\ recorders > 0
    /\ calls < MaxCalls
    /\ \E a \in RecordInputs :
        /\ store' = RecordStore(store, a)
        /\ last' = [op |-> "record", args |-> a, raised |-> RecordRaises(store, a),
                    outcome |-> IF RecordRaises(store, a) = "none" THEN "returned" ELSE "raised"]
    /\ calls' = calls + 1
    /\ UNCHANGED <<clock, recorders, te, pc, loc, conns, renamed>>

NextRecorder == Construct \/ Record

SpecRecorder == Init /\ [][NextRecorder]_vars

(***************************************************************************)
(* The wall clock read by datetime.datetime.now(): naive local time.  It   *)
(* advances while the program runs and may be set back between two reads   *)
(* (clock synchronisation step, end of daylight saving time).              *)
(***************************************************************************)
Tick ==
    /\ clock < MaxClock
    /\ clock' = clock + 1
    /\ UNCHANGED <<store, recorders, calls, last, te, pc, loc, conns, renamed>>

ClockSetBack ==
    /\ \E c \in 0..(clock - 1) : clock' = c
    /\ UNCHANGED <<store, recorders, calls, last, te, pc, loc, conns, renamed>>

(***************************************************************************)
(* runner.py / main.py: the timed executor.                                *)
(* te is the frame of the running call: the events it has performed, the   *)
(* number of statements handed to the driver, and its timestamps.          *)
(***************************************************************************)
ConnTypes == {"sqlite3", "duckdb", "psycopg2", "snowflake", "catalog"}

\* The branch of runner.execute_timed_query taken for (database_system, conn).
Branch(system, conn) ==
    IF system = SysC("SQLITE") /\ conn = "sqlite3" THEN "sqlite"
    ELSE IF system = SysC("DUCKDB") /\ conn = "duckdb" THEN "duckdb"
    ELSE IF system = SysC("POSTGRES") /\ conn = "psycopg2" THEN "postgres"
    ELSE IF system = SysC("SNOWFLAKE") /\ conn = "snowflake" THEN "snowflake"
    ELSE IF system \in OPENDIC_EXPS /\ conn = "catalog" THEN "opendic"
    ELSE "none"

\* main.py names its backends through data_recorder.DatabaseSystem; its own
\* OPENDIC_EXPS has three members.
MainOPENDIC_EXPS == {SysR("OPENDIC_POLARIS_AZURE"), SysR("OPENDIC_POLARIS_FILE"),
                     SysR("OPENDIC_POLARIS_FILE_CACHED")}

\* The branch of main._execute_timed_query taken for (database_system, conn).
MainBranch(system, conn) ==
    IF system = SysR("SQLITE") /\ conn = "sqlite3" THEN "sqlite"
    ELSE IF system = SysR("DUCKDB") /\ conn = "duckdb" THEN "duckdb"
    ELSE IF system = SysR("POSTGRES") /\ conn = "psycopg2" THEN "postgres"
    ELSE IF system = SysR("SNOWFLAKE") /\ conn = "snowflake" THEN "snowflake"
    ELSE IF system \in MainOPENDIC_EXPS /\ conn = "catalog" THEN "opendic"
    ELSE "none"

\* What the backend can answer to one dispatch.
DriverOutcomes(branch) ==
    CASE branch \in {"sqlite", "postgres"} -> {"ok", "execute_raises", "commit_raises"}
      [] branch \in {"duckdb", "snowflake"} -> {"ok", "execute_raises"}
      [] branch = "opendic" -> {"ok", "execute_raises", "error_response"}
      [] OTHER -> {"ok"}

\* The driver calls made by one branch, up to the call that raises.
DispatchEvents(branch, o) ==
    CASE branch = "sqlite" ->
            IF o = "execute_raises" THEN <<"execute">> ELSE <<"execute", "commit">>
      [] branch = "duckdb" -> <<"execute">>
      [] branch = "postgres" ->
            IF o = "execute_raises" THEN <<"cursor", "execute", "close">>
            ELSE <<"cursor", "execute", "commit", "close">>
      [] branch = "snowflake" -> <<"cursor", "execute", "close">>
      [] branch = "opendic" -> <<"execute">>
      [] OTHER -> <<>>

RaisesOnDriverErrorOnly(impl, o) == o \in {"execute_raises", "commit_raises"}

\* Whether the branch raises: a driver error, or (runner only) the assertion
\* on an error response of the catalog.
Raises(impl, o) ==
    \/ o \in {"execute_raises", "commit_raises"}
    \/ o = "error_response" /\ impl = "runner"

\* _current_task_loading(query), then start_time = now().
TEStart(impl, conn, system, query) ==
    [state |-> "started", impl |-> impl, conn |-> conn, system |-> system,
     query |-> query,
     branch |-> IF impl = "runner" THEN Branch(system, conn) ELSE MainBranch(system, conn),
     role |-> "direct", closed |-> FALSE,
     events |-> <<"loading", "now">>, dispatched |-> 0, failed |-> FALSE,
     response |-> "none", start |-> clock, end |-> 0, elapsed |-> 0]

SwallowError(t) == [t EXCEPT !.state = "dispatched"]

\* No try/except in the executor: the exception leaves the frame at once.
OnDriverError(t) == [t EXCEPT !.state = "raised"]

\* The if/elif chain of the executor: the statement goes to the driver once.
AfterDispatch(t, o) ==
    LET d == [t EXCEPT !.events = @ \o DispatchEvents(t.branch, o),
                       !.dispatched = @ + (IF t.branch = "none" THEN 0 ELSE 1),
                       !.failed = Raises(t.impl, o),
                       !.response = o,
                       !.state = "dispatched"]
    IN IF Raises(t.impl, o) THEN OnDriverError(d) ELSE d

\* The tables the statement in flight can name: the object comment_object drew.
Targets(l) == IF l.fn = "comment_object" THEN {l.k} ELSE {}

\* The statement renames the column value of table t_k (SQL keywords in any case).
RenamesColumn(q, k) ==
    q = "ALTER table t_" \o ToString(k) \o " RENAME COLUMN value TO value_altered;"

\* The statement names the column value_altered of table t_k value again.
RestoresColumn(q, k) ==
    q = "ALTER TABLE t_" \o ToString(k) \o " RENAME COLUMN value_altered TO value;"

\* SQLite refuses RENAME COLUMN when the table has no column of the old name.
ColumnMissing(r, q, ks) ==
    \E k \in ks : \/ (RenamesColumn(q, k) /\ k \in r)
                   \/ (RestoresColumn(q, k) /\ k \notin r)

\* The renamed columns after SQLite ran the statement.
ColumnsAfter(r, q, ks) ==
    (r \cup {k \in ks : RenamesColumn(q, k)}) \ {k \in ks : RestoresColumn(q, k)}

\* What the statement leaves in the SQLite file: nothing when execute raised,
\* either state when the commit raised.
BackendAfter(r, t, o, ks) ==
    IF t.branch # "sqlite" \/ o = "execute_raises" THEN {r}
    ELSE IF o = "commit_raises" THEN {r, ColumnsAfter(r, t.query, ks)}
    ELSE {ColumnsAfter(r, t.query, ks)}

\* The backend refuses to create what it holds already: table t_i, or the
\* schema experiment of DuckDB with objects in it.
ObjectExists(l, t) ==
    /\ l.fn = "main"
    /\ t.branch # "none"
    /\ \/ t.role = "create" /\ l.i \in l.held
       \/ t.role = "init" /\ t.branch = "duckdb" /\ l.held # {}

TEDispatch ==
    /\ te.state = "started"
    /\ \E o \in DriverOutcomes(te.branch) :
          /\ te.closed /\ te.branch # "none" => o = "execute_raises"
          /\ ObjectExists(loc, te) => o = "execute_raises"
          /\ te.branch = "sqlite" /\ ColumnMissing(renamed, te.query, Targets(loc))
                => o = "execute_raises"
          /\ te' = AfterDispatch(te, o)
          /\ renamed' \in BackendAfter(renamed, te, o, Targets(loc))
    /\ UNCHANGED <<clock, store, recorders, calls, last, pc, loc, conns>>

EndBeforeLastDriverCall(t, now) ==
    [t EXCEPT !.state = "returned",
              !.events = IF Len(@) > 2
                         THEN SubSeq(@, 1, Len(@) - 1) \o <<"now", @[Len(@)]>>
                         ELSE Append(@, "now"),
              !.end = now, !.elapsed = now - t.start]

ElapsedFromEpoch(t, now) ==
    [t EXCEPT !.state = "returned", !.events = Append(@, "now"),
              !.end = now, !.elapsed = now]

\* end_time = now(); return start_time, end_time, end_time - start_time
AfterEnd(t, now) ==
    [t EXCEPT !.state = "returned", !.events = Append(@, "now"),
              !.end = now, !.elapsed = now - t.start]

TEEnd ==
    /\ te.state = "dispatched"
    /\ te' = AfterEnd(te, clock)
    /\ UNCHANGED <<clock, store, recorders, calls, last, pc, loc, conns, renamed>>

(***************************************************************************)
(* A direct caller of execute_timed_query (utils/snowflake_latency_test.py *)
(* is one): any backend identifier, any handle, any query string.          *)
(***************************************************************************)
ExecQueries == {"SELECT 1;", "not sql"}

ExecCall ==
    /\ pc = "idle"
    /\ calls < MaxCalls
    /\ \E system \in DatabaseSystem \cup RecorderDatabaseSystem, conn \in ConnTypes,
          query \in ExecQueries :
            te' = TEStart("runner", conn, system, query)
    /\ pc' = "exec"
    /\ calls' = calls + 1
    /\ last' = NoCall
    /\ UNCHANGED <<clock, store, recorders, loc, conns, renamed>>

\* The caller receives the tuple.
ExecReturn ==
    /\ pc = "exec"
    /\ te.state = "returned"
    /\ last' = [op |-> "execute", outcome |-> "returned", dispatched |-> te.dispatched,
                failed |-> te.failed, result |-> <<te.start, te.end, te.elapsed>>]
    /\ te' = IdleTE
    /\ pc' = "idle"
    /\ UNCHANGED <<clock, store, recorders, calls, loc, conns, renamed>>

\* The caller receives the exception.
ExecRaise ==
    /\ pc = "exec"
    /\ te.state = "raised"
    /\ last' = [op |-> "execute", outcome |-> "raised", dispatched |-> te.dispatched,
                failed |-> te.failed, result |-> <<>>]
    /\ te' = IdleTE
    /\ pc' = "idle"
    /\ UNCHANGED <<clock, store, recorders, calls, loc, conns, renamed>>

NextExec == Tick \/ ClockSetBack \/ ExecCall \/ TEDispatch \/ TEEnd \/ ExecReturn \/ ExecRaise

SpecExec == Init /\ [][NextExec]_vars

(***************************************************************************)
(* main.py: main(), drop_schema, experiment_standard / experiment_opendic  *)
(* and main.py's own create_tables.                                        *)
(* loc holds the locals of the run: the backend, the experiment, the       *)
(* handle main() holds (conn), the handle the experiment holds (tconn),    *)
(* the loop index, what was logged and the queries (and the connect call   *)
(* of an operation) that failed in the experiment.                         *)
(***************************************************************************)
\* db_system_map: the backends the command line can select.
MainDbChoices == {SysR(n) : n \in StandardNames \cup
                     {"OPENDIC_POLARIS_FILE", "OPENDIC_POLARIS_FILE_CACHED", "OPENDIC_POLARIS_AZURE"}}

MainExpChoices == {"standard", "opendic"}

\* Granularity, in definition order.
Granularity == <<1, 10, 100, 1000, 10000, 100000>>

\* The handle connect_standard_database / connect_opendict returns for a backend.
ConnTypeOf(system) ==
    CASE system.name = "SQLITE" -> "sqlite3"
      [] system.name = "DUCKDB" -> "duckdb"
      [] system.name = "POSTGRES" -> "psycopg2"
      [] system.name = "SNOWFLAKE" -> "snowflake"
      [] OTHER -> "catalog"

\* Whether leaving "with conn:" closes the handle (duckdb, snowflake) or only
\* ends the transaction (sqlite3, psycopg2).
WithCloses(conn) == conn \in {"duckdb", "snowflake"}

\* drop_schema: the drop query of a backend, "None" for SQLite.
MainDropQuery(system) ==
    CASE system.name = "SQLITE" -> "None"
      [] system.name = "DUCKDB" -> "DROP SCHEMA experiment CASCADE;"
      [] system.name = "POSTGRES" -> "DROP SCHEMA public CASCADE; CREATE SCHEMA public;"
      [] system.name = "SNOWFLAKE" ->
            "use schema public; DROP SCHEMA if exists metadata_experiment CASCADE;"
      [] OTHER -> "DROP OPEN table"

\* main.create_tables: the query executed for object i, and the text recorded for it.
MainCreateQuery(system, i) ==
    IF system \in MainOPENDIC_EXPS
    THEN "CREATE OPEN table t_" \o ToString(i) \o " PROPS {...}"
    ELSE "CREATE TABLE t_" \o ToString(i) \o " (id INTEGER PRIMARY KEY, value TEXT);"

MainCreateRecordedText(i) ==
    "CREATE TABLE t_" \o ToString(i) \o " (id INTEGER PRIMARY KEY, value TEXT);"

\* The frame handed to the timed executor by a call site.
TECall(impl, conn, system, query, role, closed) ==
    [TEStart(impl, conn, system, query) EXCEPT !.role = role, !.closed = closed]

\* The objects t_i the backend can hold when main() starts: none, or what an
\* earlier run left behind (a run that ends before its drop_schema has created
\* t_0 at least).
EarlierRuns == {{}, {0}}

\* main(): connect to the backend (lines 611-616); a failure escapes main.
MainStart ==
    /\ pc = "idle"
    /\ calls = 0
    /\ recorders = 0
    /\ \E db \in MainDbChoices, exp \in MainExpChoices, ok \in BOOLEAN, held \in EarlierRuns :
        /\ loc' = [fn |-> "main", db |-> db, exp |-> exp, conn |-> ConnTypeOf(db),
                   tconn |-> "none", tclosed |-> FALSE, tier |-> 0, i |-> 0,
                   logs |-> {}, failed |-> {}, held |-> held]
        /\ IF ok
           THEN /\ conns' = [conns EXCEPT !.main = 1]
                /\ pc' = "main.recorder"
                /\ last' = [op |-> "main", outcome |-> "running"]
           ELSE /\ conns' = conns
                /\ pc' = "exited"
                /\ last' = [op |-> "main", outcome |-> "raised", error |-> "connect"]
    /\ calls' = calls + 1
    /\ UNCHANGED <<clock, store, recorders, te, renamed>>

\* recorder = DataRecorder(db_name=...)
MainRecorder ==
    /\ pc = "main.recorder"
    /\ store' = InitializeTables(store)
    /\ recorders' = recorders + 1
    /\ pc' = "main.drop"
    /\ UNCHANGED <<clock, calls, last, te, loc, conns, renamed>>

\* drop_schema(conn, database_system) up to its timed query: SQLite removes the
\* database file (which may fail) and has no drop query.
MainDropSchema ==
    /\ pc = "main.drop"
    /\ IF MainDropQuery(loc.db) = "None"
       THEN /\ \E removed \in BOOLEAN :
                loc' = [loc EXCEPT !.logs = IF removed THEN @ ELSE @ \cup {"Drop schema failed"},
                                   !.held = IF removed THEN {} ELSE @]
            /\ pc' = "main.exp"
            /\ te' = te
       ELSE /\ te' = TECall("main", loc.conn, loc.db, MainDropQuery(loc.db), "drop", FALSE)
            /\ pc' = "main.drop.wait"
            /\ loc' = loc
    /\ UNCHANGED <<clock, store, recorders, calls, last, conns, renamed>>

DropFailureEscapes(l) == "main.done"

\* The drop query was executed: the schema and the objects in it are gone.
AfterDrop(h) == {}

\* "except Exception as e: logging.error(...)" at the end of drop_schema: the
\* function returns to main, which goes on to the experiment.
AfterDropFailure(l) == "main.exp"

\* drop_schema: the timed query returned, or raised and was caught and logged.
MainDropSchemaDone ==
    /\ pc = "main.drop.wait"
    /\ te.state \in {"returned", "raised"}
    /\ loc' = IF te.state = "raised"
              THEN [loc EXCEPT !.logs = @ \cup {"Drop schema failed"}]
              ELSE [loc EXCEPT !.held = AfterDrop(@)]
    /\ te' = IdleTE
    /\ pc' = IF te.state = "raised" THEN AfterDropFailure(loc) ELSE "main.exp"
    /\ UNCHANGED <<clock, store, recorders, calls, last, conns, renamed>>

\* Whether the experiment's connect call raises whatever the backend does:
\* connect_standard_database raises ValueError for a catalog backend.
ConnectAlwaysRaises(exp, db) == exp = "standard" /\ db.name \notin StandardNames

\* experiment_standard / experiment_opendic: first tier, connect.
ExperimentConnect ==
    /\ pc = "main.exp"
    /\ \E ok \in BOOLEAN :
        /\ ConnectAlwaysRaises(loc.exp, loc.db) => ~ok
        /\ IF ok
           THEN /\ conns' = [conns EXCEPT !.tier = @ + 1]
                /\ loc' = [loc EXCEPT !.tier = 1, !.i = 0,
                              !.tconn = IF loc.exp = "standard" THEN ConnTypeOf(loc.db)
                                        ELSE "catalog"]
                /\ pc' = "create.init"
           ELSE /\ conns' = conns
                /\ loc' = [loc EXCEPT !.tier = 1]
                /\ pc' = "exp.except"
    /\ UNCHANGED <<clock, store, recorders, calls, last, te, renamed>>

\* main.create_tables, lines 185-226: the schema / type initialisation.
MainCreateInit ==
    /\ pc = "create.init"
    /\ IF loc.db = SysR("DUCKDB")
       THEN /\ te' = TECall("main", loc.tconn, loc.db,
                            "CREATE schema experiment; use experiment;", "init", FALSE)
            /\ pc' = "create.init.wait"
            /\ conns' = conns
            /\ loc' = loc
       ELSE IF loc.db = SysR("SNOWFLAKE")
       THEN /\ \E ok \in BOOLEAN :
                IF ok THEN /\ conns' = [conns EXCEPT !.aux = @ + 1]
                           /\ pc' = "create.init.snowflake"
                           /\ loc' = loc
                      ELSE /\ conns' = conns
                           /\ pc' = "exp.except"
                           /\ loc' = [loc EXCEPT !.failed = @ \cup {"connect_snowflake()"}]
            /\ te' = te
       ELSE IF loc.db \in MainOPENDIC_EXPS
       THEN /\ te' = TECall("main", loc.tconn, loc.db, "DEFINE OPEN table PROPS {...}",
                            "init", FALSE)
            /\ pc' = "create.init.wait"
            /\ conns' = conns
            /\ loc' = loc
       ELSE /\ pc' = "create.loop"
            /\ te' = te
            /\ conns' = conns
            /\ loc' = loc
    /\ UNCHANGED <<clock, store, recorders, calls, last, renamed>>

\* lines 190-193: "with connect_snowflake() as conn": the two statements run on
\* a new connection, which the with statement closes; conn now names it.
MainCreateInitSnowflake ==
    /\ pc = "create.init.snowflake"
    /\ conns' = [conns EXCEPT !.aux = @ - 1]
    /\ \E ok \in BOOLEAN :
        /\ loc' = [loc EXCEPT !.tconn = "snowflake", !.tclosed = TRUE,
                              !.held = IF ok THEN {} ELSE @,
                              !.failed = IF ok THEN @
                                         ELSE @ \cup {"CREATE or replace SCHEMA metadata_experiment"}]
        /\ pc' = IF ok THEN "create.loop" ELSE "exp.except"
    /\ UNCHANGED <<clock, store, recorders, calls, last, te, renamed>>

MainCreateInitDone ==
    /\ pc = "create.init.wait"
    /\ te.state \in {"returned", "raised"}
    /\ pc' = IF te.state = "returned" THEN "create.loop" ELSE "exp.except"
    /\ loc' = IF te.state = "raised" THEN [loc EXCEPT !.failed = @ \cup {te.query}] ELSE loc
    /\ te' = IdleTE
    /\ UNCHANGED <<clock, store, recorders, calls, last, conns, renamed>>

\* lines 228-264: the body of "for i in range(num_objects.value)" up to the timed query.
MainCreateExec ==
    /\ pc = "create.loop"
    /\ loc.i < Granularity[loc.tier]
    /\ te' = TECall("main", loc.tconn, loc.db, MainCreateQuery(loc.db, loc.i), "create",
                    loc.tclosed)
    /\ pc' = "create.wait"
    /\ UNCHANGED <<clock, store, recorders, calls, last, loc, conns, renamed>>

\* lines 266-276: the record main.create_tables passes for object i.
MainCreateRecord(l, t) ==
    [system |-> l.db, ddl_command |-> "CREATE", query_text |-> MainCreateRecordedText(l.i),
     target_object |-> "table", granularity |-> PyInt(l.i), repetition_nr |-> 0,
     query_runtime |-> t.elapsed, start_time |-> t.start, end_time |-> t.end]

\* lines 264-277: the timed query returned; recorder.record(*record).
MainCreateReturn ==
    /\ pc = "create.wait"
    /\ te.state = "returned"
    /\ LET a == MainCreateRecord(loc, te)
       IN /\ store' = RecordStore(store, a)
          /\ last' = [op |-> "record", args |-> a, raised |-> RecordRaises(store, a),
                      outcome |-> IF RecordRaises(store, a) = "none" THEN "returned"
                                  ELSE "raised"]
          /\ IF RecordRaises(store, a) = "none"
             THEN /\ pc' = "create.loop"
                  /\ loc' = [loc EXCEPT !.i = @ + 1, !.held = @ \cup {loc.i}]
             ELSE /\ pc' = "exp.except"
                  /\ loc' = [loc EXCEPT !.held = @ \cup {loc.i}]
    /\ te' = IdleTE
    /\ UNCHANGED <<clock, recorders, calls, conns, renamed>>

\* The timed query raised: the exception leaves create_tables.
MainCreateRaise ==
    /\ pc = "create.wait"
    /\ te.state = "raised"
    /\ loc' = [loc EXCEPT !.failed = @ \cup {te.query}]
    /\ te' = IdleTE
    /\ pc' = "exp.except"
    /\ UNCHANGED <<clock, store, recorders, calls, last, conns, renamed>>

RetryTier(l) == "create.loop"

\* "except Exception as e: logging.error(...)" encloses the whole loop over the
\* tiers: the experiment ends.
AfterExperimentFailure(l) == "main.done"

\* The exception reaches experiment_*: the with statement of experiment_standard
\* is left, the failure is logged and the experiment returns.
ExperimentExcept ==
    /\ pc = "exp.except"
    /\ conns' = IF loc.exp = "standard" /\ loc.tconn # "none" /\ WithCloses(ConnTypeOf(loc.db))
                THEN [conns EXCEPT !.tier = @ - 1]
                ELSE conns
    /\ loc' = [loc EXCEPT !.logs = @ \cup {"Experiment 1 failed"}]
    /\ pc' = AfterExperimentFailure(loc)
    /\ UNCHANGED <<clock, store, recorders, calls, last, te, renamed>>

\* main(), finally: close_database(database_system, conn)
MainClose ==
    /\ pc = "main.done"
    /\ conns' = IF loc.db \in MainOPENDIC_EXPS THEN conns ELSE [conns EXCEPT !.main = 0]
    /\ pc' = "main.recorder.close"
    /\ UNCHANGED <<clock, store, recorders, calls, last, te, loc, renamed>>

\* main(), finally: recorder.close(); DataRecorder defines no close method.
MainRecorderClose ==
    /\ pc = "main.recorder.close"
    /\ last' = [op |-> "main", outcome |-> "raised", error |-> "AttributeError"]
    /\ pc' = "exited"
    /\ UNCHANGED <<clock, store, recorders, calls, te, loc, conns, renamed>>

(***************************************************************************)
(* exp_table.py: create_tables, alter_tables, comment_object and           *)
(* show_objects, called with a handle of the backend's own type.  They use *)
(* runner.execute_timed_query and consts.DatabaseSystem.                   *)
(***************************************************************************)
\* Number of Granularity tiers a caller of the library uses.
MaxTier == 2
\* Number of experiment operations a caller of the library runs against one store.
MaxOps == 1

\* The backends, object kinds and flags a caller of the library passes.
LibSystems == {SysC("SQLITE"), SysC("DUCKDB"), SysC("OPENDIC_POLARIS_FILE"), SysR("SQLITE")}

LibGranularities == {Gran(Granularity[k]) : k \in 1..MaxTier}

LibObjects == {"table", "view"}

LibStartIdx == {0, 1}

TName(i) == "t_" \o ToString(i)

RandIntOneBased(a, b) == (a + 1)..(b + 1)

\* random.randint(a, b): an integer N with a <= N <= b.
RandInt(a, b) == a..b

CreateInitQueryOnResume(system, start_idx) ==
    IF system = SysC("DUCKDB") THEN "CREATE schema experiment; use experiment;"
    ELSE IF system \in OPENDIC_EXPS THEN "DEFINE OPEN table PROPS {...}"
    ELSE ""

\* exp_table.create_tables: the initialisation query, "" when there is none.
CreateInitQuery(system, start_idx) ==
    IF system = SysC("DUCKDB") THEN "CREATE schema experiment; use experiment;"
    ELSE IF system \in OPENDIC_EXPS /\ start_idx = 0 THEN "DEFINE OPEN table PROPS {...}"
    ELSE ""

CreateQuery(system, i) ==
    IF system \in OPENDIC_EXPS
    THEN "CREATE OPEN table " \o TName(i) \o " PROPS {...}"
    ELSE "CREATE TABLE " \o TName(i) \o " (id INTEGER PRIMARY KEY, value TEXT);"

AlterQuery(system, k, num_exp) ==
    IF system \in OPENDIC_EXPS
    THEN "ALTER OPEN table " \o TName(k) \o " PROPS {columns + altered_" \o ToString(num_exp) \o "}"
    ELSE "ALTER TABLE " \o TName(k) \o " ADD COLUMN altered_" \o ToString(num_exp) \o " TEXT;"

\* comment_object renames a column on SQLite tables, which have no comments.
IsRename(system, object) == system = SysC("SQLITE") /\ object = "table"

CommentQuery(system, object, k, num_exp) ==
    IF IsRename(system, object)
    THEN "ALTER table " \o TName(k) \o " RENAME COLUMN value TO value_altered;"
    ELSE IF system \in OPENDIC_EXPS
    THEN "ALTER OPEN table " \o TName(k) \o " PROPS {comment, altered_" \o ToString(num_exp) \o "}"
    ELSE "COMMENT ON " \o object \o " " \o TName(k) \o " is 'This " \o object \o " has been altered';"

CleanQueryOtherTable(k) == "ALTER TABLE " \o TName(k + 1) \o " RENAME COLUMN value_altered TO value;"

\* lines 403-404: the clean-up statement of comment_object.
CleanQuery(k) == "ALTER TABLE " \o TName(k) \o " RENAME COLUMN value_altered TO value;"

ShowQuery(system, object) ==
    IF system = SysC("SQLITE") THEN "SELECT name FROM sqlite_master WHERE type = '" \o object \o "';"
    ELSE IF system = SysC("POSTGRES") THEN "SELECT ... FROM pg_catalog.pg_class ..."
    ELSE IF system = SysC("SNOWFLAKE") THEN "show tables limit 10000"
    ELSE IF system \in OPENDIC_EXPS THEN "show open " \o object
    ELSE "SHOW tables"

LibFrame(fn, system, g, object, num_exp, logging, start_idx) ==
    [fn |-> fn, system |-> system, conn |-> ConnTypeOf(system), gran |-> g,
     object |-> object, num_exp |-> num_exp, logging |-> logging, i |-> start_idx,
     k |-> 0]

\* create_tables(conn, database_system, num_objects, recorder, logging, start_idx),
\* lines 27-69.  (The SNOWFLAKE branch, lines 33-36, sends its two statements
\* through a cursor; LibSystems holds no Snowflake backend.)
CallCreateTables ==
    /\ pc = "idle"
    /\ recorders > 0
    /\ calls < MaxOps
    /\ \E system \in LibSystems, g \in LibGranularities, logging \in BOOLEAN,
          start_idx \in LibStartIdx :
        /\ loc' = LibFrame("create_tables", system, g, "table", 0, logging, start_idx)
        /\ IF CreateInitQuery(system, start_idx) # ""
           THEN /\ te' = TECall("runner", ConnTypeOf(system), system,
                                CreateInitQuery(system, start_idx), "init", FALSE)
                /\ pc' = "lib.create.init"
           ELSE /\ te' = te
                /\ pc' = "lib.create.loop"
    /\ calls' = calls + 1
    /\ last' = NoCall
    /\ UNCHANGED <<clock, store, recorders, conns, renamed>>

\* The function raises to its caller.
LibRaised(fn) == [op |-> fn, outcome |-> "raised"]

\* The function returns to its caller.
LibReturned(fn) == [op |-> fn, outcome |-> "returned"]

\* line 69: "_ = execute_timed_query(...)": the result is dropped.
CreateInitDone ==
    /\ pc = "lib.create.init"
    /\ te.state \in {"returned", "raised"}
    /\ IF te.state = "returned"
       THEN /\ pc' = "lib.create.loop"
            /\ loc' = loc
            /\ last' = last
       ELSE /\ pc' = "idle"
            /\ loc' = NoLoc
            /\ last' = LibRaised(loc.fn)
    /\ te' = IdleTE
    /\ UNCHANGED <<clock, store, recorders, calls, conns, renamed>>

\* lines 71-107: "for i in range(start_idx, num_objects.value)".
CreateExec ==
    /\ pc = "lib.create.loop"
    /\ IF loc.i < loc.gran.value
       THEN /\ te' = TECall("runner", loc.conn, loc.system, CreateQuery(loc.system, loc.i),
                            "create", FALSE)
            /\ pc' = "lib.create.wait"
            /\ loc' = loc
            /\ last' = last
       ELSE /\ te' = te
            /\ pc' = "idle"
            /\ loc' = NoLoc
            /\ last' = LibReturned(loc.fn)
    /\ UNCHANGED <<clock, store, recorders, calls, conns, renamed>>

\* lines 109-119: the record create_tables passes for object i.
CreateRecord(l, t) ==
    [system |-> l.system, ddl_command |-> "CREATE", query_text |-> t.query,
     target_object |-> "table", granularity |-> PyInt(l.i), repetition_nr |-> 0,
     query_runtime |-> t.elapsed, start_time |-> t.start, end_time |-> t.end]

\* What a call of recorder.record leaves in last.
Recorded(st, a) ==
    [op |-> "record", args |-> a, raised |-> RecordRaises(st, a),
     outcome |-> IF RecordRaises(st, a) = "none" THEN "returned" ELSE "raised"]

\* lines 107-120: the timed query returned; "if logging: recorder.record(*record)".
CreateReturn ==
    /\ pc = "lib.create.wait"
    /\ te.state = "returned"
    /\ IF loc.logging
       THEN LET a == CreateRecord(loc, te)
            IN /\ store' = RecordStore(store, a)
               /\ last' = Recorded(store, a)
               /\ IF RecordRaises(store, a) = "none"
                  THEN /\ pc' = "lib.create.loop"
                       /\ loc' = [loc EXCEPT !.i = @ + 1]
                  ELSE /\ pc' = "idle"
                       /\ loc' = NoLoc
       ELSE /\ store' = store
            /\ last' = last
            /\ pc' = "lib.create.loop"
            /\ loc' = [loc EXCEPT !.i = @ + 1]
    /\ te' = IdleTE
    /\ UNCHANGED <<clock, recorders, calls, conns, renamed>>

\* alter_tables(conn, database_system, granularity, recorder, num_exp), lines 284-322.
CallAlterTables ==
    /\ pc = "idle"
    /\ recorders > 0
    /\ calls < MaxOps
    /\ \E system \in LibSystems, g \in LibGranularities, num_exp \in 0..MaxRep :
       \E k \in RandInt(0, g.value - 1) :
        /\ loc' = [LibFrame("alter_tables", system, g, "table", num_exp, TRUE, 0)
                      EXCEPT !.k = k]
        /\ te' = TECall("runner", ConnTypeOf(system), system,
                        AlterQuery(system, k, num_exp), "alter", FALSE)
    /\ pc' = "lib.op.wait"
    /\ calls' = calls + 1
    /\ last' = NoCall
    /\ UNCHANGED <<clock, store, recorders, conns, renamed>>

\* comment_object(conn, database_system, database_object, granularity, recorder,
\* num_exp), lines 348-388.
CallCommentObject ==
    /\ pc = "idle"
    /\ recorders > 0
    /\ calls < MaxOps
    /\ \E system \in LibSystems, object \in LibObjects, g \in LibGranularities,
          num_exp \in 0..MaxRep :
       \E k \in RandInt(0, g.value - 1) :
        /\ loc' = [LibFrame("comment_object", system, g, object, num_exp, TRUE, 0)
                      EXCEPT !.k = k]
        /\ te' = TECall("runner", ConnTypeOf(system), system,
                        CommentQuery(system, object, k, num_exp), "comment", FALSE)
    /\ pc' = "lib.op.wait"
    /\ calls' = calls + 1
    /\ last' = NoCall
    /\ UNCHANGED <<clock, store, recorders, conns, renamed>>

\* show_objects(conn, database_system, database_object, granularity, recorder,
\* num_exp), lines 417-434.
CallShowObjects ==
    /\ pc = "idle"
    /\ recorders > 0
    /\ calls < MaxOps
    /\ \E system \in LibSystems, object \in LibObjects, g \in LibGranularities,
          num_exp \in 0..MaxRep :
        /\ loc' = LibFrame("show_objects", system, g, object, num_exp, TRUE, 0)
        /\ te' = TECall("runner", ConnTypeOf(system), system, ShowQuery(system, object),
                        "show", FALSE)
    /\ pc' = "lib.op.wait"
    /\ calls' = calls + 1
    /\ last' = NoCall
    /\ UNCHANGED <<clock, store, recorders, conns, renamed>>

\* The DDLCommand alter_tables, comment_object and show_objects record.
CommandOf(fn) ==
    CASE fn = "alter_tables" -> "ALTER"
      [] fn = "comment_object" -> "COMMENT"
      [] fn = "show_objects" -> "SHOW"
      [] fn = "run_alter_function" -> "ALTER"
      [] fn = "run_comment_function" -> "COMMENT"
      [] fn = "run_show_functions" -> "SHOW"

OpRecordSwapped(l, t) ==
    [system |-> l.system, ddl_command |-> CommandOf(l.fn), query_text |-> t.query,
     target_object |-> l.object, granularity |-> l.gran, repetition_nr |-> l.num_exp,
     query_runtime |-> t.elapsed, start_time |-> t.end, end_time |-> t.start]

\* exp_table.py lines 323-333, 389-399, 435-445: the record of the operation.
OpRecord(l, t) ==
    [system |-> l.system, ddl_command |-> CommandOf(l.fn), query_text |-> t.query,
     target_object |-> l.object, granularity |-> l.gran, repetition_nr |-> l.num_exp,
     query_runtime |-> t.elapsed, start_time |-> t.start, end_time |-> t.end]

\* The timed query of alter_tables / comment_object / show_objects returned:
\* recorder.record(*record); comment_object then renames the SQLite column back
\* (lines 403-405).
OpReturn ==
    /\ pc = "lib.op.wait"
    /\ te.state = "returned"
    /\ LET a == OpRecord(loc, te)
       IN /\ store' = RecordStore(store, a)
          /\ last' = Recorded(store, a)
          /\ IF RecordRaises(store, a) # "none"
             THEN /\ pc' = "idle"
                  /\ loc' = NoLoc
                  /\ te' = IdleTE
             ELSE IF loc.fn = "comment_object" /\ IsRename(loc.system, loc.object)
             THEN /\ pc' = "lib.comment.cleanup"
                  /\ loc' = loc
                  /\ te' = TECall("runner", loc.conn, loc.system, CleanQuery(loc.k),
                                  "cleanup", FALSE)
             ELSE /\ pc' = "idle"
                  /\ loc' = NoLoc
                  /\ te' = IdleTE
    /\ UNCHANGED <<clock, recorders, calls, conns, renamed>>

\* line 405: the clean-up query returned or raised; its result is dropped.
CommentCleanupDone ==
    /\ pc = "lib.comment.cleanup"
    /\ te.state \in {"returned", "raised"}
    /\ last' = IF te.state = "returned" THEN last ELSE LibRaised(loc.fn)
    /\ te' = IdleTE
    /\ pc' = "idle"
    /\ loc' = NoLoc
    /\ UNCHANGED <<clock, store, recorders, calls, conns, renamed>>

\* A timed query of an operation raised: the exception leaves the function.
OpRaise ==
    /\ pc \in {"lib.op.wait", "lib.create.wait"}
    /\ te.state = "raised"
    /\ last' = LibRaised(loc.fn)
    /\ te' = IdleTE
    /\ pc' = "idle"
    /\ loc' = NoLoc
    /\ UNCHANGED <<clock, store, recorders, calls, conns, renamed>>

(***************************************************************************)
(* A caller that runs comment_object on SQLite tables time after time,     *)
(* against one connection and one recorder.                                *)
(***************************************************************************)
CallCommentSqlite ==
    /\ pc = "idle"
    /\ recorders > 0
    /\ calls < MaxCalls
    /\ \E g \in LibGranularities, num_exp \in 0..MaxRep :
       \E k \in RandInt(0, g.value - 1) :
        /\ loc' = [LibFrame("comment_object", SysC("SQLITE"), g, "table", num_exp, TRUE, 0)
                      EXCEPT !.k = k]
        /\ te' = TECall("runner", ConnTypeOf(SysC("SQLITE")), SysC("SQLITE"),
                        CommentQuery(SysC("SQLITE"), "table", k, num_exp), "comment", FALSE)
    /\ pc' = "lib.op.wait"
    /\ calls' = calls + 1
    /\ last' = NoCall
    /\ UNCHANGED <<clock, store, recorders, conns, renamed>>

NextComment ==
    \/ Tick \/ Construct \/ CallCommentSqlite \/ TEDispatch \/ TEEnd
    \/ OpReturn \/ CommentCleanupDone \/ OpRaise

SpecComment == Init /\ [][NextComment]_vars

(***************************************************************************)
(* exp_function.py: the function experiments.  They compare the backend    *)
(* with data_recorder.DatabaseSystem and with consts.OPENDIC_EXPS, and run *)
(* their statements through runner.execute_timed_query.                    *)
(***************************************************************************)
\* The backends a caller passes.  (The SNOWFLAKE branch of run_create_function
\* sends two initialisation statements; FnSystems holds no Snowflake backend.)
FnSystems == {SysR("SQLITE"), SysC("SQLITE"), SysR("DUCKDB"), SysC("OPENDIC_POLARIS_FILE")}

FName(i) == "f_" \o ToString(i)

\* run_create_function, lines 16-34: the initialisation statement, "" for none.
FnInitQuery(system) ==
    IF system = SysR("DUCKDB") THEN "CREATE schema experiment; USE experiment;"
    ELSE IF system \in OPENDIC_EXPS THEN "DEFINE OPEN function PROPS {...}"
    ELSE ""

FnCreateQueryEveryBackend(system, i) ==
    IF system \in OPENDIC_EXPS THEN "CREATE OPEN function " \o FName(i) \o " PROPS {...}"
    ELSE IF system = SysR("DUCKDB") THEN "CREATE MACRO " \o FName(i) \o "(a, b) AS a + b;"
    ELSE "CREATE FUNCTION " \o FName(i) \o "(a integer, b integer) RETURNS integer LANGUAGE SQL RETURN a + b;"

\* lines 37-57: the statement for function i, "" where the loop continues.
FnCreateQuery(system, i) ==
    IF system \in OPENDIC_EXPS THEN "CREATE OPEN function " \o FName(i) \o " PROPS {...}"
    ELSE IF system = SysR("SNOWFLAKE")
    THEN "CREATE FUNCTION " \o FName(i) \o "(a INT, b INT) RETURNS INT LANGUAGE SQL AS $$ a + b $$;"
    ELSE IF system = SysR("DUCKDB") THEN "CREATE MACRO " \o FName(i) \o "(a, b) AS a + b;"
    ELSE IF system = SysR("POSTGRES")
    THEN "CREATE FUNCTION " \o FName(i) \o "(a integer, b integer) RETURNS integer LANGUAGE SQL RETURN a + b;"
    ELSE ""

FnOps == {"run_alter_function", "run_comment_function", "run_show_functions"}

\* lines 67-87, 105-128, 152-170: the statement of the operation, "" where the
\* function returns at once.
FnOpQuery(fn, system, idx, num_exp) ==
    CASE fn = "run_alter_function" ->
            IF system \in OPENDIC_EXPS
            THEN "ALTER OPEN function " \o FName(idx) \o " PROPS {definition: SELECT a + b + 42}"
            ELSE IF system = SysR("SNOWFLAKE")
            THEN "CREATE OR REPLACE FUNCTION " \o FName(idx) \o "(a INT, b INT) ... a + b + 42 $$;"
            ELSE IF system = SysR("DUCKDB")
            THEN "CREATE OR REPLACE MACRO " \o FName(idx) \o "(a, b) AS a + b + 42;"
            ELSE IF system = SysR("POSTGRES")
            THEN "CREATE OR REPLACE FUNCTION " \o FName(idx) \o "(a integer, b integer) ... RETURN a + b + 42;"
            ELSE ""
      [] fn = "run_comment_function" ->
            IF system \in OPENDIC_EXPS
            THEN "ALTER OPEN function " \o FName(idx) \o " PROPS {comment: Function altered at experiment "
                    \o ToString(num_exp) \o "}"
            ELSE IF system = SysR("POSTGRES")
            THEN "COMMENT ON FUNCTION " \o FName(idx) \o " IS 'Function altered at experiment "
                    \o ToString(num_exp) \o "';"
            ELSE IF system = SysR("SNOWFLAKE")
            THEN "COMMENT ON FUNCTION " \o FName(idx) \o "(INT, INT) IS 'Function altered at experiment "
                    \o ToString(num_exp) \o "';"
            ELSE IF system = SysR("DUCKDB")
            THEN "COMMENT ON MACRO " \o FName(idx) \o " IS 'Function altered at experiment "
                    \o ToString(num_exp) \o "';"
            ELSE ""
      [] fn = "run_show_functions" ->
            IF system = SysR("POSTGRES") THEN "SELECT ... FROM pg_proc p ... LIKE 'f_%';"
            ELSE IF system = SysR("SNOWFLAKE") THEN "SHOW USER FUNCTIONS limit 10000;"
            ELSE IF system \in OPENDIC_EXPS THEN "SHOW OPEN function;"
            ELSE IF system = SysR("DUCKDB")
            THEN "SELECT * FROM duckdb_functions() WHERE function_type = 'macro' AND function_name LIKE 'f_%';"
            ELSE ""

\* The function returned to its caller.
FnReturned(l) == [op |-> l.fn, outcome |-> "returned", system |-> l.system, gran |-> l.gran]

\* run_create_function(conn, database_system, granularity, recorder), lines 16-34.
CallRunCreateFunction ==
    /\ pc = "idle"
    /\ recorders > 0
    /\ calls < MaxOps
    /\ \E system \in FnSystems, g \in LibGranularities :
        /\ loc' = LibFrame("run_create_function", system, g, "function", 0, TRUE, 0)
        /\ IF FnInitQuery(system) # ""
           THEN /\ te' = TECall("runner", ConnTypeOf(system), system, FnInitQuery(system),
                                "init", FALSE)
                /\ pc' = "fn.create.init"
           ELSE /\ te' = te
                /\ pc' = "fn.create.loop"
    /\ calls' = calls + 1
    /\ last' = NoCall
    /\ UNCHANGED <<clock, store, recorders, conns, renamed>>

\* line 19 / 34: the initialisation statement returned or raised.
FnCreateInitDone ==
    /\ pc = "fn.create.init"
    /\ te.state \in {"returned", "raised"}
    /\ IF te.state = "returned"
       THEN /\ pc' = "fn.create.loop"
            /\ loc' = loc
            /\ last' = last
       ELSE /\ pc' = "idle"
            /\ loc' = NoLoc
            /\ last' = LibRaised(loc.fn)
    /\ te' = IdleTE
    /\ UNCHANGED <<clock, store, recorders, calls, conns, renamed>>

\* lines 36-59: one turn of "for i in range(granularity.value)": no statement
\* means "continue".
FnCreateStep ==
    /\ pc = "fn.create.loop"
    /\ IF loc.i >= loc.gran.value
       THEN /\ te' = te
            /\ pc' = "idle"
            /\ loc' = NoLoc
            /\ last' = FnReturned(loc)
       ELSE IF FnCreateQuery(loc.system, loc.i) = ""
       THEN /\ te' = te
            /\ pc' = "fn.create.loop"
            /\ loc' = [loc EXCEPT !.i = @ + 1]
            /\ last' = last
       ELSE /\ te' = TECall("runner", loc.conn, loc.system, FnCreateQuery(loc.system, loc.i),
                            "create", FALSE)
            /\ pc' = "fn.create.wait"
            /\ loc' = loc
            /\ last' = last
    /\ UNCHANGED <<clock, store, recorders, calls, conns, renamed>>

\* lines 60-62: the record run_create_function passes for function i.
FnCreateRecord(l, t) ==
    [system |-> l.system, ddl_command |-> "CREATE", query_text |-> t.query,
     target_object |-> "function", granularity |-> PyInt(l.i), repetition_nr |-> 0,
     query_runtime |-> t.elapsed, start_time |-> t.start, end_time |-> t.end]

\* lines 59-62: the timed query returned and is recorded, or raised.
FnCreateDone ==
    /\ pc = "fn.create.wait"
    /\ te.state \in {"returned", "raised"}
    /\ IF te.state = "raised"
       THEN /\ store' = store
            /\ last' = LibRaised(loc.fn)
            /\ pc' = "idle"
            /\ loc' = NoLoc
       ELSE LET a == FnCreateRecord(loc, te)
            IN /\ store' = RecordStore(store, a)
               /\ last' = Recorded(store, a)
               /\ IF RecordRaises(store, a) = "none"
                  THEN /\ pc' = "fn.create.loop"
                       /\ loc' = [loc EXCEPT !.i = @ + 1]
                  ELSE /\ pc' = "idle"
                       /\ loc' = NoLoc
    /\ te' = IdleTE
    /\ UNCHANGED <<clock, recorders, calls, conns, renamed>>

\* run_alter_function / run_comment_function / run_show_functions up to the
\* timed query; the record follows as for the table operations.
CallFunctionOp ==
    /\ pc = "idle"
    /\ recorders > 0
    /\ calls < MaxOps
    /\ \E fn \in FnOps, system \in FnSystems, g \in LibGranularities, num_exp \in 0..MaxRep :
       \E idx \in RandInt(0, g.value - 1) :
        LET l == [LibFrame(fn, system, g, "function", num_exp, TRUE, 0) EXCEPT !.k = idx]
        IN IF FnOpQuery(fn, system, idx, num_exp) = ""
           THEN /\ loc' = NoLoc
                /\ te' = te
                /\ pc' = "idle"
                /\ last' = FnReturned(l)
           ELSE /\ loc' = l
                /\ te' = TECall("runner", ConnTypeOf(system), system,
                                FnOpQuery(fn, system, idx, num_exp), "function", FALSE)
                /\ pc' = "lib.op.wait"
                /\ last' = NoCall
    /\ calls' = calls + 1
    /\ UNCHANGED <<clock, store, recorders, conns, renamed>>

NextFunction ==
    \/ Tick \/ Construct \/ TEDispatch \/ TEEnd
    \/ CallRunCreateFunction \/ FnCreateInitDone \/ FnCreateStep \/ FnCreateDone
    \/ CallFunctionOp \/ OpReturn \/ OpRaise

SpecFunction == Init /\ [][NextFunction]_vars

(***************************************************************************)
(* exp_table.create_tables_batch: the objects of a tier created by one     *)
(* statement.  (For num_objects.value > 10000 the code sends the objects   *)
(* in slices of 10000, each timed and recorded like the single statement;  *)
(* LibGranularities holds no such tier.)                                   *)
(***************************************************************************)
BatchSystems == {SysC("OPENDIC_POLARIS_FILE_BATCH"), SysC("OPENDIC_POLARIS_FILE")}

\* line 132: the assertion on database_system.
BatchAsserted(system) ==
    system \in {SysC("OPENDIC_POLARIS_FILE_BATCH"), SysC("OPENDIC_POLARIS_FILE_CACHED_BATCH")}

BatchInitQuery == "DEFINE OPEN table PROPS {...}"

\* complete_query: the statement naming the objects t_0 .. t_{n-1}.
BatchQuery(g) ==
    "CREATE OPEN BATCH table OBJECTS [{t_0}..{" \o TName(g.value - 1) \o "}]"

\* The text recorded: json.dumps(query_objs)[-1] is the last character, "]".
BatchRecordedText == "CREATE OPEN BATCH table OBJECTS ]"

\* line 166: the largest number of objects sent in one statement.
BatchLimit == 10000

\* Every member of Granularity: create_tables_batch branches on num_objects.value.
BatchGranularities == {Gran(Granularity[k]) : k \in 1..Len(Granularity)}

Min(a, b) == IF a <= b THEN a ELSE b

\* The number of statements: one (line 166), or range(num_objects.value // 10_000) (line 221).
BatchCount(n) == IF n <= BatchLimit THEN 1 ELSE n \div BatchLimit

BatchSliceOverlapping(n, i) == [lo |-> i * BatchLimit, hi |-> Min((i + 1) * BatchLimit + 1, n)]

\* line 250: range(i * 10_000, min((i + 1) * 10_000, num_objects.value)), the
\* objects t_lo .. t_{hi-1} of slice i.
BatchSlice(n, i) == [lo |-> i * BatchLimit, hi |-> Min((i + 1) * BatchLimit, n)]

\* The objects of statement i: all of them (line 196), or slice i.
BatchRange(n, i) == IF n <= BatchLimit THEN [lo |-> 0, hi |-> n] ELSE BatchSlice(n, i)

\* complete_query_batch: the statement naming the objects of a slice.
BatchSliceQuery(r) ==
    "CREATE OPEN BATCH table OBJECTS [{" \o TName(r.lo) \o "}..{" \o TName(r.hi - 1) \o "}]"

\* The statement create_tables_batch sends as its i-th.
BatchStatement(g, i) ==
    IF g.value <= BatchLimit THEN BatchQuery(g) ELSE BatchSliceQuery(BatchSlice(g.value, i))

\* create_tables_batch(conn, database_system, num_objects, recorder, logging),
\* lines 131-164.  batches holds the ranges of the objects submitted so far.
CallCreateTablesBatch ==
    /\ pc = "idle"
    /\ recorders > 0
    /\ calls < MaxOps
    /\ \E system \in BatchSystems, g \in BatchGranularities, logging \in BOOLEAN :
        IF BatchAsserted(system)
        THEN /\ loc' = LibFrame("create_tables_batch", system, g, "table", 0, logging, 0)
                          @@ [batches |-> <<>>]
             /\ te' = TECall("runner", ConnTypeOf(system), system, BatchInitQuery, "init", FALSE)
             /\ pc' = "lib.batch.init"
             /\ last' = NoCall
        ELSE /\ loc' = loc
             /\ te' = te
             /\ pc' = pc
             /\ last' = LibRaised("create_tables_batch")
    /\ calls' = calls + 1
    /\ UNCHANGED <<clock, store, recorders, conns, renamed>>

\* The frame after statement i has been handed to the timed executor.
BatchSubmitted(l, i) ==
    [l EXCEPT !.i = i, !.batches = Append(@, BatchRange(l.gran.value, i))]

\* line 164: the result of the init query is dropped; lines 166-204 (one
\* statement) or 220-259 (the first slice): the statement is executed.
BatchInitDone ==
    /\ pc = "lib.batch.init"
    /\ te.state \in {"returned", "raised"}
    /\ IF te.state = "returned"
       THEN /\ te' = TECall("runner", loc.conn, loc.system, BatchStatement(loc.gran, 0),
                            "create", FALSE)
            /\ pc' = "lib.batch.wait"
            /\ loc' = BatchSubmitted(loc, 0)
            /\ last' = last
       ELSE /\ te' = IdleTE
            /\ pc' = "idle"
            /\ loc' = NoLoc
            /\ last' = LibRaised(loc.fn)
    /\ UNCHANGED <<clock, store, recorders, calls, conns, renamed>>

\* lines 206-216 and 261-271: the record create_tables_batch passes.
BatchRecord(l, t) ==
    [system |-> l.system, ddl_command |-> "CREATE", query_text |-> BatchRecordedText,
     target_object |-> "table", granularity |-> PyInt(l.gran.value), repetition_nr |-> 0,
     query_runtime |-> t.elapsed, start_time |-> t.start, end_time |-> t.end]

\* The function returns to its caller, having submitted l.batches.
BatchReturned(l) ==
    [op |-> l.fn, outcome |-> "returned", gran |-> l.gran, batches |-> l.batches]

\* lines 204-217 and 257-272: a statement returned; "if logging:
\* recorder.record(*record)"; then the next slice, or the end of the function.
BatchReturn ==
    /\ pc = "lib.batch.wait"
    /\ te.state = "returned"
    /\ LET a == BatchRecord(loc, te)
           raises == loc.logging /\ RecordRaises(store, a) # "none"
           more == loc.i + 1 < BatchCount(loc.gran.value)
       IN /\ store' = IF loc.logging THEN RecordStore(store, a) ELSE store
          /\ last' = IF loc.logging THEN Recorded(store, a)
                     ELSE IF more THEN last ELSE BatchReturned(loc)
          /\ IF raises \/ ~more
             THEN /\ te' = IdleTE
                  /\ pc' = "idle"
                  /\ loc' = NoLoc
             ELSE /\ te' = TECall("runner", loc.conn, loc.system,
                                  BatchStatement(loc.gran, loc.i + 1), "create", FALSE)
                  /\ pc' = "lib.batch.wait"
                  /\ loc' = BatchSubmitted(loc, loc.i + 1)
    /\ UNCHANGED <<clock, recorders, calls, conns, renamed>>

\* A statement raised: the exception leaves create_tables_batch.
BatchRaise ==
    /\ pc = "lib.batch.wait"
    /\ te.state = "raised"
    /\ last' = LibRaised(loc.fn)
    /\ te' = IdleTE
    /\ pc' = "idle"
    /\ loc' = NoLoc
    /\ UNCHANGED <<clock, store, recorders, calls, conns, renamed>>

\* One run: either main() or a caller of the experiment operations.
Next ==
    \/ Tick \/ ClockSetBack \/ TEDispatch \/ TEEnd \/ Construct
    \/ CallCreateTables \/ CreateInitDone \/ CreateExec \/ CreateReturn
    \/ CallAlterTables \/ CallCommentObject \/ CallShowObjects
    \/ OpReturn \/ CommentCleanupDone \/ OpRaise
    \/ CallCreateTablesBatch \/ BatchInitDone \/ BatchReturn \/ BatchRaise
    \/ MainStart \/ MainRecorder \/ MainDropSchema \/ MainDropSchemaDone
    \/ ExperimentConnect \/ MainCreateInit \/ MainCreateInitSnowflake \/ MainCreateInitDone
    \/ MainCreateExec \/ MainCreateReturn \/ MainCreateRaise \/ ExperimentExcept
    \/ MainClose \/ MainRecorderClose

Spec == Init /\ [][Next]_vars


(***************************************************************************)
(* Properties of the timed executor and of the recorder.                   *)
(***************************************************************************)
\* C1: when execute_timed_query returns (start, end, elapsed), end is never
\* earlier than start.
C1_EndNotBeforeStart == te.state = "returned" => te.end >= te.start

\* The step is a call of record() with a well-formed Experiment Record.
RecordStep(a) ==
    /\ calls' # calls
    /\ last'.op = "record"
    /\ last'.args = a
    /\ HasValueAttr(a.granularity)

\* The nine literal values of an Experiment Record, as a row read back.
LiteralRow(a) ==
    [system_name |-> Value(a.system), ddl_command |-> a.ddl_command,
     query_text |-> a.query_text, target_object |-> a.target_object,
     granularity |-> a.granularity.value, repetition_nr |-> a.repetition_nr,
     query_runtime |-> a.query_runtime, start_time |-> a.start_time,
     end_time |-> a.end_time]

\* C2: record() of any Experiment Record adds exactly one row to the backend's
\* results table, and that row holds the record's nine literal values.
C2_RecordAddsLiteralRow ==
    [][\A a \in RecordInputs : RecordStep(a) =>
          /\ last'.raised = "none"
          /\ TableName(a.system) \in DOMAIN store
          /\ store'[TableName(a.system)] = Append(store[TableName(a.system)], LiteralRow(a))]_vars

\* C3: once a DataRecorder is constructed a results table exists for every
\* DatabaseSystem value a driver can pass to record, so record never targets
\* a missing table.
C3_TableForEveryBackend ==
    recorders > 0 =>
        /\ \A s \in DatabaseSystem \cup RecorderDatabaseSystem : TableName(s) \in DOMAIN store
        /\ (last.op = "record" => last.raised # "CatalogException")

\* C4: a second initialization against the same store does not raise, creates
\* no table and leaves every results table and its rows unchanged.
C4_InitIdempotent ==
    [][(recorders >= 1 /\ recorders' = recorders + 1) =>
          (store' = store /\ last'.outcome = "returned")]_vars

C4_Witness ==
    /\ recorders = 2
    /\ last.op = "construct"
    /\ \E t \in DOMAIN store : Len(store[t]) > 0

\* C5: appending a record whose (backend, command, object, granularity,
\* repetition) equals that of a row already in the table succeeds and adds
\* one more row.
C5_NoDedup ==
    [][\A a \in RecordInputs :
          (/\ RecordStep(a)
           /\ TableName(a.system) \in DOMAIN store
           /\ \E k \in 1..Len(store[TableName(a.system)]) :
                 Key(store[TableName(a.system)][k]) = Key(LiteralRow(a)))
          => (/\ last'.raised = "none"
              /\ Len(store'[TableName(a.system)]) = Len(store[TableName(a.system)]) + 1)]_vars

\* C6: when the driver raises, execute_timed_query hands the error to its
\* caller: the query was dispatched at most once and no tuple is returned.
C6_ErrorPropagates ==
    /\ te.state # "idle" => te.dispatched <= 1
    /\ (te.state # "idle" /\ te.failed) => te.state = "raised"
    /\ (last.op = "execute" /\ last.failed) =>
          (last.outcome = "raised" /\ last.result = <<>> /\ last.dispatched <= 1)

C6_Witness ==
    /\ last.op = "execute"
    /\ last.outcome = "raised"
    /\ last.failed
    /\ last.dispatched = 1

RECURSIVE RowCount(_, _)
RowCount(st, ts) ==
    IF ts = {} THEN 0
    ELSE LET t == CHOOSE x \in ts : TRUE IN Len(st[t]) + RowCount(st, ts \ {t})

\* The step consumes the result of a timed call that returned.
TimedCallConsumed == te.state = "returned" /\ te' # te

\* The timed call is one with logging switched off by its caller.
LoggingOff ==
    /\ loc.fn \in {"create_tables", "create_tables_batch"}
    /\ te.role = "create"
    /\ ~loc.logging

Measured ==
    \/ te.role \in {"alter", "comment", "show"}
    \/ te.role = "create" /\ ~LoggingOff

TierGranularity(l) == IF l.fn = "main" THEN Gran(Granularity[l.tier]) ELSE l.gran

\* C9: the granularity of every recorded row is the granularity of the tier
\* it was measured in, for CREATE rows as for ALTER, COMMENT and SHOW rows.
C9_GranularityIsTier ==
    [][(last'.op = "record" /\ last' # last /\ loc.fn # "none") =>
          /\ last'.args.granularity = TierGranularity(loc)
          /\ last'.raised # "AttributeError"]_vars

DriverEvents == {"cursor", "execute", "commit", "close"}

\* C12: a call of the timed executor that returns has handed the query to the
\* backend exactly once, through execute (and commit for SQLite and
\* PostgreSQL handles), whatever backend identifier and handle it was given.
C12_ReturnedMeansExecuted ==
    te.state = "returned" =>
        /\ te.dispatched = 1
        /\ \E k \in 1..Len(te.events) : te.events[k] = "execute"
        /\ te.conn \in {"sqlite3", "psycopg2"} =>
              \E k \in 1..Len(te.events) : te.events[k] = "commit"

\* C13: in a call that returns, the progress line is written first, the start
\* timestamp is read next, every driver call (execute, commit, cursor close)
\* follows it, and the end timestamp is read last.
C13_TimestampsBracketDispatch ==
    te.state = "returned" =>
        LET e == te.events
            n == Len(te.events)
        IN /\ n >= 3
           /\ e[1] = "loading"
           /\ e[2] = "now"
           /\ e[n] = "now"
           /\ \A k \in 3..(n - 1) : e[k] \in DriverEvents
           /\ te.branch # "none" => \E k \in 3..(n - 1) : e[k] = "execute"
           /\ te.branch \in {"sqlite", "postgres"} => \E k \in 3..(n - 1) : e[k] = "commit"
           /\ te.branch \in {"postgres", "snowflake"} => e[n - 1] = "close"

C13_Witness ==
    /\ te.state = "returned"
    /\ te.events = <<"loading", "now", "cursor", "execute", "commit", "close", "now">>
    /\ te.end > te.start

\* C14: the elapsed value a call returns is its end minus its start, and a
\* record built from a call carries that call's elapsed value together with
\* that call's start and end.  (timedelta.total_seconds() is the same
\* duration as a number; the model counts both in clock ticks.)
C14_ElapsedIsEndMinusStart ==
    [][/\ (te.state = "dispatched" /\ te'.state = "returned") =>
              te'.elapsed = te'.end - te'.start
       /\ (te.state = "returned" /\ last'.op = "record" /\ last' # last) =>
              /\ last'.args.query_runtime = te.elapsed
              /\ last'.args.start_time = te.start
              /\ last'.args.end_time = te.end
              /\ last'.args.query_runtime = last'.args.end_time - last'.args.start_time]_vars

C14_Witness ==
    /\ last.op = "record"
    /\ last.raised = "none"
    /\ last.args.ddl_command = "SHOW"
    /\ last.args.start_time = 1
    /\ last.args.end_time = 2
    /\ \E k \in 1..Len(store[TableName(last.args.system)]) :
          store[TableName(last.args.system)][k].query_runtime = 1

C16_OneRowPerCreate ==
    [][(/\ loc.fn = "create_tables"
        /\ loc.logging
        /\ pc = "lib.create.wait"
        /\ te.state = "returned"
        /\ te' # te) =>
          /\ te.query = CreateQuery(loc.system, loc.i)
          /\ last'.op = "record"
          /\ last'.raised = "none"
          /\ RowCount(store', DOMAIN store') = RowCount(store, DOMAIN store) + 1
          /\ loc'.fn = "create_tables"
          /\ loc'.i = loc.i + 1]_vars

\* C17: the query text of every record handed to the recorder is the query
\* string the timed executor was given for that operation.
C17_RecordedTextIsExecutedText ==
    [][(te.state = "returned" /\ last'.op = "record" /\ last' # last) =>
          last'.args.query_text = te.query]_vars

\* C18: an experiment operation calls recorder.record only for a timed call
\* that returned normally (in runner.execute_timed_query: the driver did not
\* raise and the catalog did not answer with an error), and when the timed
\* call raises the operation leaves the results store unchanged.
C18_NoRowForFailedQuery ==
    [][/\ (last'.op = "record" /\ last' # last /\ loc.fn # "none") =>
              /\ te.state = "returned"
              /\ ~te.failed
              /\ te.response \notin {"execute_raises", "commit_raises"}
              /\ te.impl = "runner" => te.response = "ok"
       /\ (te.state = "raised" /\ te' # te) =>
              /\ store' = store
              /\ last'.op # "record"]_vars

C18_Witness ==
    /\ last = LibRaised("alter_tables")
    /\ pc = "idle"
    /\ calls = MaxOps
    /\ recorders > 0
    /\ \A t \in DOMAIN store : store[t] = <<>>

\* The experiment of main() has ended and no query of it failed.
ExperimentEndedWithoutFailedQuery ==
    /\ loc.fn = "main"
    /\ pc = "main.done"
    /\ loc.tier >= 1
    /\ loc.tconn # "none"
    /\ loc.failed = {}

RowsOf(st, t, c) == {k \in 1..Len(st[t]) : st[t][k].ddl_command = c}

C22_RecordFrame ==
    [][(last'.op = "record" /\ calls' # calls) =>
          /\ DOMAIN store' = DOMAIN store
          /\ \A t \in DOMAIN store :
                t # TableName(last'.args.system) => store'[t] = store[t]]_vars

C22_Witness ==
    /\ last.op = "record"
    /\ last.raised = "none"
    /\ Len(store[TableName(last.args.system)]) = 1
    /\ \E t \in DOMAIN store : t # TableName(last.args.system) /\ Len(store[t]) = 1

\* The objects the create step of a tier of g objects creates with start index 0.
CreatedNames(g) == {TName(i) : i \in 0..(g.value - 1)}

ConsecutiveFromZero(bs, n) ==
    /\ \A j \in 1..Len(bs) :
          /\ bs[j].lo < bs[j].hi
          /\ bs[j].lo = IF j = 1 THEN 0 ELSE bs[j - 1].hi
          /\ bs[j].hi - bs[j].lo = IF n <= BatchLimit THEN n ELSE BatchLimit
    /\ Len(bs) <= (IF n <= BatchLimit THEN 1 ELSE n \div BatchLimit)

C25_EveryBatchRecorded ==
    [][(/\ loc.fn = "create_tables_batch"
        /\ loc.logging
        /\ loc.gran.value > BatchLimit
        /\ pc = "lib.batch.wait"
        /\ te.state = "returned"
        /\ te' # te) =>
          /\ last'.op = "record"
          /\ last'.raised = "none"
          /\ RowCount(store', DOMAIN store') = RowCount(store, DOMAIN store) + 1]_vars

SqliteFunctionFrame(l) ==
    l.fn \in FnOps \cup {"run_create_function"} /\ l.system.name = "SQLITE"

\* One of the four function experiments on SQLite has returned.
SqliteFunctionReturned(r) ==
    /\ r.op \in FnOps \cup {"run_create_function"}
    /\ r.outcome = "returned"
    /\ r.system.name = "SQLITE"

\* C28: for the SQLite backend a function experiment hands no statement to
\* the timed executor and leaves the results store as it was, from the call
\* to the return.
C28_SqliteFunctionsDoNothing ==
    [][/\ (SqliteFunctionFrame(loc) \/ SqliteFunctionFrame(loc'))
            => (te' = IdleTE /\ store' = store)
       /\ (last' # last /\ SqliteFunctionReturned(last'))
            => (te = IdleTE /\ te' = IdleTE /\ store' = store)]_vars

\* run_create_function returned for SQLite at granularity 10, the store still empty.
C28_Witness ==
    /\ pc = "idle"
    /\ last = [op |-> "run_create_function", outcome |-> "returned",
               system |-> SysR("SQLITE"), gran |-> Gran(10)]
    /\ "sqlitedb_logs" \in DOMAIN store
    /\ \A t \in DOMAIN store : store[t] = <<>>

\* A frame of the timed executor that has just been handed the statement q.
Submits(t, u, q) == u.state = "started" /\ u # t /\ u.query = q

\* C29: for an open-dictionary backend create_tables submits DEFINE OPEN table
\* as its first statement when start_idx is 0 and nowhere else: not in the
\* loop, and not at all when it resumes with start_idx > 0.  A CREATE OPEN
\* table is submitted from the loop only, after the DEFINE has come back.
C29_DefineOnceBeforeCreates ==
    [][/\ (loc'.fn = "create_tables" /\ Submits(te, te', "DEFINE OPEN table PROPS {...}"))
            => (pc = "idle" /\ loc'.i = 0 /\ pc' = "lib.create.init")
       /\ (pc = "idle" /\ loc'.fn = "create_tables" /\ loc'.system \in OPENDIC_EXPS)
            => IF loc'.i = 0
               THEN Submits(te, te', "DEFINE OPEN table PROPS {...}")
               ELSE te' = te /\ pc' = "lib.create.loop"
       /\ (loc.fn = "create_tables" /\ loc.system \in OPENDIC_EXPS
              /\ Submits(te, te', CreateQuery(loc.system, loc.i)))
            => (pc = "lib.create.loop" /\ te = IdleTE)]_vars

\* The first CREATE OPEN table of a call with start_idx = 0 is with the
\* catalog, the DEFINE having returned.
C29_Witness ==
    /\ pc = "lib.create.wait"
    /\ loc.fn = "create_tables"
    /\ loc.system \in OPENDIC_EXPS
    /\ loc.i = 0
    /\ te.state = "dispatched"
    /\ te.query = "CREATE OPEN table t_0 PROPS {...}"
====
